---- MODULE Spec2Model ----
(***************************************************************************)
(* SimpleAudioOverlay.overlay_audio of simple_audio_duration.py as a state *)
(* machine: one call of overlay_audio, its local variables as the state,   *)
(* one action per block of the function body.                              *)
(*                                                                         *)
(* Numbers.  A tensor element is a float32.  It is modelled by a binary    *)
(* floating-point format of the same structure (subnormals, normals,       *)
(* round-to-nearest-even, +-inf, NaN) with SigBits significand bits and    *)
(* MaxExp+1 binades instead of 24 and 254.  A finite element is the        *)
(* integer number of least subnormals it holds, so 1.0 is One.  The Python *)
(* float of resample_audio (duration) is modelled the same way with        *)
(* DoubleSigBits significand bits and no exponent limit.                   *)
(***************************************************************************)
EXTENDS Integers, Sequences, FiniteSets

\* ------------------------------------------------------------------ bounds
SigBits == 3
MaxExp == 3
DoubleSigBits == 8
MaxRate == 3
MaxLen == 2
MaxChannels == 3

\* ----------------------------------------------------------------- helpers
RECURSIVE Pow2(_)
Pow2(n) == IF n <= 0 THEN 1 ELSE 2 * Pow2(n - 1)

Abs(x) == IF x < 0 THEN -x ELSE x
Sign(x) == IF x < 0 THEN -1 ELSE 1
Min2(a, b) == IF a < b THEN a ELSE b
Max2(a, b) == IF a > b THEN a ELSE b

\* a / d (a >= 0, d > 0) rounded to the nearest integer, ties to even
RoundHalfEven(a, d) ==
    LET q == a \div d
        r == a % d
    IN  IF 2 * r < d THEN q
        ELSE IF 2 * r > d THEN q + 1
        ELSE IF q % 2 = 0 THEN q ELSE q + 1

\* ------------------------------------------------- tensor elements (float)
One == Pow2(SigBits)
Half == One \div 2
MaxFinite == (Pow2(SigBits) - 1) * Pow2(MaxExp)
PosInf == MaxFinite + 1
NegInf == -PosInf
NaN == 2 * PosInf
IsFinite(x) == Abs(x) <= MaxFinite

\* the binade of a / d: the least e >= 0 with a / d < 2^SigBits * 2^e
RECURSIVE Binade(_, _, _)
Binade(a, d, e) ==
    IF a \div (d * Pow2(e)) < Pow2(SigBits) THEN e ELSE Binade(a, d, e + 1)

\* the element nearest to the real p / d (d > 0), overflowing to +-inf
FRound(p, d) ==
    LET a == Abs(p)
        e == Binade(a, d, 0)
        v == RoundHalfEven(a, d * Pow2(e)) * Pow2(e)
    IN  IF v > MaxFinite THEN Sign(p) * PosInf ELSE Sign(p) * v

\* x + y
FAdd(x, y) ==
    IF x = NaN \/ y = NaN THEN NaN
    ELSE IF ~IsFinite(x) /\ ~IsFinite(y) THEN (IF x = y THEN x ELSE NaN)
    ELSE IF ~IsFinite(x) THEN x
    ELSE IF ~IsFinite(y) THEN y
    ELSE FRound(x + y, 1)

\* x * (n / d), for a weight n / d >= 0 held exactly
FMulRat(x, n, d) ==
    IF x = NaN THEN NaN
    ELSE IF ~IsFinite(x) THEN (IF n = 0 THEN NaN ELSE x)
    ELSE FRound(x * n, d)

\* x * s, s a finite Python float >= 0 given in units of 1 / One
FMul(x, s) == FMulRat(x, s, One)

\* x / y
FDiv(x, y) ==
    IF x = NaN \/ y = NaN THEN NaN
    ELSE IF ~IsFinite(x) /\ ~IsFinite(y) THEN NaN
    ELSE IF ~IsFinite(y) THEN 0
    ELSE IF y = 0 THEN (IF x = 0 THEN NaN ELSE Sign(x) * PosInf)
    ELSE IF ~IsFinite(x) THEN Sign(x) * Sign(y) * PosInf
    ELSE FRound(Sign(y) * x * One, Abs(y))

FAbs(x) == IF x = NaN THEN NaN ELSE Abs(x)

\* x > y as IEEE 754 compares: false when either side is NaN
FGreater(x, y) == x # NaN /\ y # NaN /\ x > y

\* ------------------------------------------------------------------ tensors
\* A tensor of dim 1 [samples], 2 [channels, samples] or 3 [1, channels,
\* samples]: data is the sequence of its channels, each a sequence of samples.
Tensor(d, rows) == [dim |-> d, data |-> rows]
NoTensor == Tensor(0, <<>>)

\* waveform.shape[-1]
LastSize(w) == Len(w.data[1])
\* the size of the channel axis of the rows held
Rows(w) == Len(w.data)

\* waveform.unsqueeze(0)
Unsqueeze0(w) == Tensor(w.dim + 1, w.data)
\* waveform.squeeze(0): drops a leading axis of size 1
Squeeze0(w) ==
    IF w.dim = 3 THEN Tensor(2, w.data)
    ELSE IF w.dim = 2 /\ Rows(w) = 1 THEN Tensor(1, w.data)
    ELSE w

\* waveform.repeat(2, 1) of a 2-D tensor: the rows tiled twice
Repeat2(w) == Tensor(2, w.data \o w.data)

\* F.pad(waveform, (0, padding)): zeros appended on the last axis
PadZerosRight(padding) == [i \in 1..padding |-> 0]
\* FPad with the zeros put in front, F.pad(waveform, (padding, 0))
FPadLeft(w, padding) ==
    Tensor(w.dim, [c \in 1..Len(w.data) |-> PadZerosRight(padding) \o w.data[c]])
FPad(w, padding) ==
    Tensor(w.dim, [c \in 1..Rows(w) |-> w.data[c] \o PadZerosRight(padding)])

\* waveform1 + waveform2, elementwise on two tensors of one shape
TensorAdd(a, b) ==
    Tensor(a.dim, [c \in 1..Rows(a) |->
                      [i \in 1..LastSize(a) |-> FAdd(a.data[c][i], b.data[c][i])]])

\* waveform * s, for a Python float s
TensorMul(a, s) ==
    Tensor(a.dim, [c \in 1..Rows(a) |->
                      [i \in 1..LastSize(a) |-> FMul(a.data[c][i], s)]])

\* waveform / s, for an element s
TensorDiv(a, s) ==
    Tensor(a.dim, [c \in 1..Rows(a) |->
                      [i \in 1..LastSize(a) |-> FDiv(a.data[c][i], s)]])

Elements(w) == {w.data[c][i] : c \in 1..Rows(w), i \in 1..LastSize(w)}

\* torch.abs(t).max(): NaN when an element is NaN
AbsMax(w) ==
    IF NaN \in Elements(w) THEN NaN
    ELSE CHOOSE m \in {FAbs(x) : x \in Elements(w)} :
            \A x \in Elements(w) : FAbs(x) <= m

\* --------------------------------------------------------------- resampling
\* p / d (p >= 0, d > 0) rounded to DoubleSigBits significant bits: <<n, m>>
\* stands for n / m
RECURSIVE ScaleDown(_, _, _)
ScaleDown(p, d, j) ==
    IF p \div (d * Pow2(j)) < Pow2(DoubleSigBits) THEN j ELSE ScaleDown(p, d, j + 1)
RECURSIVE ScaleUp(_, _, _)
ScaleUp(p, d, k) ==
    IF (p * Pow2(k)) \div d >= Pow2(DoubleSigBits - 1) THEN k ELSE ScaleUp(p, d, k + 1)

DRound(p, d) ==
    IF p = 0 THEN <<0, 1>>
    ELSE IF p \div d >= Pow2(DoubleSigBits)
         THEN LET j == ScaleDown(p, d, 0)
              IN  <<RoundHalfEven(p, d * Pow2(j)) * Pow2(j), 1>>
         ELSE LET k == ScaleUp(p, d, 0)
              IN  <<RoundHalfEven(p * Pow2(k), d), Pow2(k)>>

\* IntOf rounding to the nearest integer, round(x), instead of truncating
IntOfRounded(x) == RoundHalfEven(x[1], x[2])

\* int(x) of a float x >= 0
IntOf(x) == x[1] \div x[2]

\* duration = waveform.shape[-1] / orig_sr; new_length = int(duration * target_sr)
\* Both roundings are made, so the product can fall short of an integer
\* quotient and be truncated to one less: in binary64, (15 / 22050) * 44100 is
\* below 30.  The lengths and rates here are too small for that to happen.
NewLength(length, orig_sr, target_sr) ==
    LET duration == DRound(length, orig_sr)
    IN  IntOf(DRound(duration[1] * target_sr, duration[2]))

\* One output sample of F.interpolate(mode='linear', align_corners=False):
\* the source position of output j (0-based) is in/out * (j + 0.5) - 0.5,
\* clamped at 0; the sample is w0 * x[i0] + w1 * x[i1].  The position and the
\* weights are held exactly.
LinearSample(x, size, j) ==
    LET input_size == Len(x)
        den == 2 * size
        num == Max2(input_size * (2 * j + 1) - size, 0)
        i0 == num \div den
        i1 == IF i0 < input_size - 1 THEN i0 + 1 ELSE i0
        l1 == num % den
    IN  FAdd(FMulRat(x[i0 + 1], den - l1, den), FMulRat(x[i1 + 1], l1, den))

\* F.interpolate(batch_waveform, size=new_length, mode='linear')
Interpolate(w, size) ==
    Tensor(w.dim, [c \in 1..Rows(w) |->
                      [i \in 1..size |-> LinearSample(w.data[c], size, i - 1)]])

\* F.interpolate raises unless the output size is greater than 0
ResampleRaises(w, orig_sr, target_sr) ==
    orig_sr # target_sr /\ NewLength(LastSize(w), orig_sr, target_sr) < 1

\* resample_audio(waveform, orig_sr, target_sr), where it returns
ResampleAudio(w, orig_sr, target_sr) ==
    IF orig_sr = target_sr THEN w
    ELSE LET new_length == NewLength(LastSize(w), orig_sr, target_sr)
             batch_waveform == IF w.dim = 3 THEN w
                               ELSE IF w.dim = 2 THEN Unsqueeze0(w)
                               ELSE Unsqueeze0(Unsqueeze0(w))
             resampled == Interpolate(batch_waveform, new_length)
         IN  IF w.dim = 3 THEN resampled
             ELSE IF w.dim = 2 THEN Squeeze0(resampled)
             ELSE Squeeze0(Squeeze0(resampled))

\* ------------------------------------------------------- overlay_audio, parts
\* ResolveRate with the branches of 'higher' and 'lower' exchanged
ResolveRateSwapped(target, sample_rate1, sample_rate2) ==
    IF target = "auto" \/ target = "higher" THEN Min2(sample_rate1, sample_rate2)
    ELSE IF target = "lower" THEN Max2(sample_rate1, sample_rate2)
    ELSE IF target = "audio1" THEN sample_rate1
    ELSE sample_rate2

\* the target sample rate (final_sample_rate)
ResolveRate(target, sample_rate1, sample_rate2) ==
    IF target = "auto" \/ target = "higher" THEN Max2(sample_rate1, sample_rate2)
    ELSE IF target = "lower" THEN Min2(sample_rate1, sample_rate2)
    ELSE IF target = "audio1" THEN sample_rate1
    ELSE sample_rate2

\* waveform.shape[0] if waveform.dim() == 2 else 1
ChannelCount(w) == IF w.dim = 2 THEN Rows(w) ELSE 1

\* waveform.dim() == 3
HasBatch(w) == w.dim = 3

\* Incompatible without the exception for mono against stereo
IncompatibleAnyMismatch(c1, c2) == c1 # c2

\* the channel counts the function raises on: they differ and are not 1 and 2
Incompatible(c1, c2) ==
    c1 # c2 /\ ~(c1 = 1 /\ c2 = 2) /\ ~(c1 = 2 /\ c2 = 1)

\* Upmix repeating along the sample axis, repeat(1, 2), instead of the channels
UpmixAlongSamples(w) == Tensor(2, [c \in 1..Rows(w) |-> w.data[c] \o w.data[c]])

\* the mono side made stereo: unsqueeze(0) when 1-D, then repeat(2, 1)
Upmix(w) == IF w.dim = 1 THEN Repeat2(Unsqueeze0(w)) ELSE Repeat2(w)

\* waveform.unsqueeze(0) when waveform.dim() == 1
Ensure2D(w) == IF w.dim = 1 THEN Unsqueeze0(w) ELSE w

\* PadTo padding by max_length instead of the difference
PadToByMax(w, length) ==
    IF LastSize(w) < length THEN FPad(w, length) ELSE w

\* the shorter waveform padded with zeros up to max_length
PadTo(w, length) ==
    IF LastSize(w) < length THEN FPad(w, length - LastSize(w)) ELSE w

\* MixWaveforms with the two weights of 'mix' exchanged
MixWaveformsSwapped(w1, w2, mode, ratio) ==
    IF mode = "add" THEN TensorAdd(w1, w2)
    ELSE IF mode = "average" THEN TensorDiv(TensorAdd(w1, w2), 2 * One)
    ELSE TensorAdd(TensorMul(w1, One - ratio), TensorMul(w2, ratio))

\* the three blend modes; 1.0 - mix_ratio is a Python float, exact here
MixWaveforms(w1, w2, mode, ratio) ==
    IF mode = "add" THEN TensorAdd(w1, w2)
    ELSE IF mode = "average" THEN TensorDiv(TensorAdd(w1, w2), 2 * One)
    ELSE TensorAdd(TensorMul(w1, ratio), TensorMul(w2, One - ratio))

\* WrapBatch adding the batch dimension only if both inputs had it
WrapBatchBoth(w, batch1, batch2) == IF batch1 /\ batch2 THEN Unsqueeze0(w) ELSE w

\* the batch dimension added back if either input had it
WrapBatch(w, batch1, batch2) == IF batch1 \/ batch2 THEN Unsqueeze0(w) ELSE w

\* Normalize taking the peak without torch.abs: mixed_waveform.max()
SignedMax(w) ==
    IF NaN \in Elements(w) THEN NaN
    ELSE CHOOSE m \in Elements(w) : \A x \in Elements(w) : x <= m
NormalizeSignedMax(w) ==
    LET max_val == SignedMax(w)
    IN  IF FGreater(max_val, One) THEN TensorDiv(w, max_val) ELSE w

\* Normalize dividing by the peak whatever it is
NormalizeAlways(w) == TensorDiv(w, AbsMax(w))

\* mixed_waveform / max_val when max_val > 1.0
Normalize(w) ==
    LET max_val == AbsMax(w)
    IN  IF FGreater(max_val, One) THEN TensorDiv(w, max_val) ELSE w

\* ---------------------------------------------------------------- the state
VARIABLES audio1, audio2, blend_mode, mix_ratio, target_sample_rate,
          pc, waveform1, waveform2, final_sample_rate, max_length,
          has_batch1, has_batch2, channels1, channels2, mixed_waveform,
          result, error

args == <<audio1, audio2, blend_mode, mix_ratio, target_sample_rate>>
vars == <<audio1, audio2, blend_mode, mix_ratio, target_sample_rate,
          pc, waveform1, waveform2, final_sample_rate, max_length,
          has_batch1, has_batch2, channels1, channels2, mixed_waveform,
          result, error>>

\* ---------------------------------------------------------------- the inputs
BlendModes == {"add", "average", "mix"}
Policies == {"auto", "audio1", "audio2", "higher", "lower"}
Rates == 1..MaxRate
Lengths == 1..MaxLen
\* <<dim, channels>>: a 1-D waveform has one channel
Forms == {<<1, 1>>} \cup {<<d, c>> : d \in {2, 3}, c \in 1..MaxChannels}
\* <<a, b>>: the two sample values a waveform alternates between
Tones == { <<0, 0>>, <<1, 1>>, <<Half, 0 - Half>>, <<One, Half>>,
           <<0 - One, One + Half>>, <<MaxFinite, One>>,
           <<0 - MaxFinite, MaxFinite>>, <<Half + 1, 1>> }
DefaultTone == <<One, Half>>
Ratios == {0, Half \div 2, Half, One}

Waveform(form, length, tone) ==
    Tensor(form[1], [c \in 1..form[2] |->
                        [i \in 1..length |->
                            IF (c + i) % 2 = 0 THEN tone[1] ELSE tone[2]]])
Audio(form, length, tone, rate) ==
    [waveform |-> Waveform(form, length, tone), sample_rate |-> rate]

NoError == [kind |-> "none", channels1 |-> 0, channels2 |-> 0]
NoResult == [waveform |-> NoTensor, sample_rate |-> 0]

\* the state on entry, after lines 109-112 read the arguments
Entry(a1, a2, mode, ratio, target) ==
    /\ audio1 = a1
    /\ audio2 = a2
    /\ blend_mode = mode
    /\ mix_ratio = ratio
    /\ target_sample_rate = target
    /\ pc = "resolve"
    /\ waveform1 = a1.waveform
    /\ waveform2 = a2.waveform
    /\ final_sample_rate = 0
    /\ max_length = 0
    /\ has_batch1 = FALSE
    /\ has_batch2 = FALSE
    /\ channels1 = 0
    /\ channels2 = 0
    /\ mixed_waveform = NoTensor
    /\ result = NoResult
    /\ error = NoError

\* every shape, length, rate and policy, on one tone
InitShapes ==
    \E f1 \in Forms, f2 \in Forms, l1 \in Lengths, l2 \in Lengths,
       r1 \in Rates, r2 \in Rates, target \in Policies,
       cfg \in {<<"add", Half>>, <<"mix", One>>} :
        Entry(Audio(f1, l1, DefaultTone, r1), Audio(f2, l2, DefaultTone, r2),
              cfg[1], cfg[2], target)

\* every tone, blend mode and ratio, on mono and stereo waveforms of one rate
InitLevels ==
    \E c1 \in {1, 2}, c2 \in {1, 2}, l1 \in Lengths, l2 \in Lengths,
       t1 \in Tones, t2 \in Tones,
       cfg \in {<<"add", Half>>, <<"average", Half>>}
                 \cup {<<"mix", r>> : r \in Ratios} :
        Entry(Audio(<<2, c1>>, l1, t1, 1), Audio(<<2, c2>>, l2, t2, 1),
              cfg[1], cfg[2], "higher")

Init == InitShapes \/ InitLevels

\* ------------------------------------------------------------- the actions
\* lines 114-122
DetermineRate ==
    /\ pc = "resolve"
    /\ final_sample_rate' = ResolveRate(target_sample_rate,
                                        audio1.sample_rate, audio2.sample_rate)
    /\ pc' = "resample"
    /\ UNCHANGED <<args, waveform1, waveform2, max_length, has_batch1,
                   has_batch2, channels1, channels2, mixed_waveform, result,
                   error>>

\* lines 124-129: F.interpolate raises on an output of no samples
Resample ==
    /\ pc = "resample"
    /\ IF ResampleRaises(waveform1, audio1.sample_rate, final_sample_rate)
       THEN /\ pc' = "raised"
            /\ error' = [NoError EXCEPT !.kind = "RuntimeError"]
            /\ UNCHANGED <<waveform1, waveform2>>
       ELSE LET w1 == ResampleAudio(waveform1, audio1.sample_rate,
                                    final_sample_rate)
            IN  IF ResampleRaises(waveform2, audio2.sample_rate, final_sample_rate)
                THEN /\ pc' = "raised"
                     /\ error' = [NoError EXCEPT !.kind = "RuntimeError"]
                     /\ waveform1' = w1
                     /\ UNCHANGED waveform2
                ELSE /\ pc' = "batch"
                     /\ waveform1' = w1
                     /\ waveform2' = ResampleAudio(waveform2, audio2.sample_rate,
                                                   final_sample_rate)
                     /\ UNCHANGED error
    /\ UNCHANGED <<args, final_sample_rate, max_length, has_batch1, has_batch2,
                   channels1, channels2, mixed_waveform, result>>

\* lines 131-147
StripBatch ==
    /\ pc = "batch"
    /\ max_length' = Max2(LastSize(waveform1), LastSize(waveform2))
    /\ has_batch1' = HasBatch(waveform1)
    /\ has_batch2' = HasBatch(waveform2)
    /\ waveform1' = IF HasBatch(waveform1) THEN Squeeze0(waveform1) ELSE waveform1
    /\ waveform2' = IF HasBatch(waveform2) THEN Squeeze0(waveform2) ELSE waveform2
    /\ channels1' = ChannelCount(waveform1')
    /\ channels2' = ChannelCount(waveform2')
    /\ pc' = "channels"
    /\ UNCHANGED <<args, final_sample_rate, mixed_waveform, result, error>>

\* lines 149-169
ReconcileChannels ==
    /\ pc = "channels"
    /\ IF Incompatible(channels1, channels2)
       THEN /\ pc' = "raised"
            /\ error' = [kind |-> "ValueError", channels1 |-> channels1,
                         channels2 |-> channels2]
            /\ UNCHANGED <<waveform1, waveform2>>
       ELSE /\ waveform1' = Ensure2D(IF channels1 = 1 /\ channels2 = 2
                                     THEN Upmix(waveform1) ELSE waveform1)
            /\ waveform2' = Ensure2D(IF channels1 = 2 /\ channels2 = 1
                                     THEN Upmix(waveform2) ELSE waveform2)
            /\ pc' = "pad"
            /\ UNCHANGED error
    /\ UNCHANGED <<args, final_sample_rate, max_length, has_batch1, has_batch2,
                   channels1, channels2, mixed_waveform, result>>

\* lines 171-178
PadShorter ==
    /\ pc = "pad"
    /\ waveform1' = PadTo(waveform1, max_length)
    /\ waveform2' = PadTo(waveform2, max_length)
    /\ pc' = "mix"
    /\ UNCHANGED <<args, final_sample_rate, max_length, has_batch1, has_batch2,
                   channels1, channels2, mixed_waveform, result, error>>

\* lines 180-194
Mix ==
    /\ pc = "mix"
    /\ mixed_waveform' = MixWaveforms(waveform1, waveform2, blend_mode, mix_ratio)
    /\ pc' = "clip"
    /\ UNCHANGED <<args, waveform1, waveform2, final_sample_rate, max_length,
                   has_batch1, has_batch2, channels1, channels2, result, error>>

\* lines 196-199
PreventClipping ==
    /\ pc = "clip"
    /\ mixed_waveform' = Normalize(mixed_waveform)
    /\ pc' = "return"
    /\ UNCHANGED <<args, waveform1, waveform2, final_sample_rate, max_length,
                   has_batch1, has_batch2, channels1, channels2, result, error>>

\* lines 201-208
Return ==
    /\ pc = "return"
    /\ result' = [waveform |-> WrapBatch(mixed_waveform, has_batch1, has_batch2),
                  sample_rate |-> final_sample_rate]
    /\ pc' = "done"
    /\ UNCHANGED <<args, waveform1, waveform2, final_sample_rate, max_length,
                   has_batch1, has_batch2, channels1, channels2, mixed_waveform,
                   error>>

Next ==
    \/ DetermineRate
    \/ Resample
    \/ StripBatch
    \/ ReconcileChannels
    \/ PadShorter
    \/ Mix
    \/ PreventClipping
    \/ Return

Spec == Init /\ [][Next]_vars

\* ------------------------------------------------------------ the properties
\* what the claims read off the arguments
InDim(a) == a.waveform.dim
InChannels(a) == Rows(a.waveform)
InLength(a) == LastSize(a.waveform)
InElements(a) == Elements(a.waveform)
Returned == pc = "done"
Finished == pc \in {"done", "raised"}
Aligned == pc \in {"mix", "clip", "return", "done"}

\* the rate the policy names
PolicyRate ==
    CASE target_sample_rate \in {"auto", "higher"} ->
             IF audio1.sample_rate >= audio2.sample_rate
             THEN audio1.sample_rate ELSE audio2.sample_rate
      [] target_sample_rate = "lower" ->
             IF audio1.sample_rate <= audio2.sample_rate
             THEN audio1.sample_rate ELSE audio2.sample_rate
      [] target_sample_rate = "audio1" -> audio1.sample_rate
      [] target_sample_rate = "audio2" -> audio2.sample_rate

\* the length an argument has once it is at the target rate
LengthAtTarget(a) ==
    IF a.sample_rate = PolicyRate THEN InLength(a)
    ELSE NewLength(InLength(a), a.sample_rate, PolicyRate)

\* C1: for every pair of rates and every policy the call resolves a target
\* rate, max for 'auto' and 'higher', min for 'lower', rate1 for 'audio1',
\* rate2 for 'audio2', and the returned clip carries it.
C1_RateResolved ==
    /\ target_sample_rate \in Policies
    /\ pc # "resolve" => final_sample_rate = PolicyRate
    /\ Returned => result.sample_rate = PolicyRate

C1_Witness ==
    /\ Returned
    /\ target_sample_rate = "lower"
    /\ audio1.sample_rate > audio2.sample_rate
    /\ result.sample_rate = audio2.sample_rate

\* C4: just before mixing both operands have the same channel count and the
\* same sample length; the returned waveform has the larger of the two input
\* channel counts and the larger of the two lengths after resampling.
C4_Aligned ==
    /\ Aligned => /\ waveform1.dim = 2 /\ waveform2.dim = 2
                  /\ Rows(waveform1) = Rows(waveform2)
                  /\ \A c \in 1..Rows(waveform1) :
                        Len(waveform1.data[c]) = Len(waveform2.data[c])
    /\ Returned =>
          /\ Rows(result.waveform) = Max2(InChannels(audio1), InChannels(audio2))
          /\ \A c \in 1..Rows(result.waveform) :
                Len(result.waveform.data[c])
                    = Max2(LengthAtTarget(audio1), LengthAtTarget(audio2))

C4_Witness ==
    /\ Returned
    /\ InDim(audio1) = 1 /\ InDim(audio2) = 3 /\ InChannels(audio2) = 2
    /\ audio1.sample_rate # audio2.sample_rate
    /\ LengthAtTarget(audio1) < LengthAtTarget(audio2)
    /\ Rows(result.waveform) = 2
    /\ LastSize(result.waveform) = LengthAtTarget(audio2)

\* C8: with one mono and one stereo input, in either order and with the mono
\* waveform 1-D or 2-D, the mono side becomes two copies of its single channel
\* and the stereo side is left as it is; the output has 2 channels.
StrippedAtTarget(a) ==
    LET w == ResampleAudio(a.waveform, a.sample_rate, PolicyRate)
    IN  Tensor(2, w.data)
C8_MonoUpmixed(mono, stereo) ==
    /\ mono.dim = 2 /\ Rows(mono) = 2
    /\ mono.data[1] = mono.data[2]
    /\ stereo.dim = 2 /\ Rows(stereo) = 2
C8_Upmix ==
    /\ pc = "pad" /\ channels1 = 1 /\ channels2 = 2 =>
          /\ C8_MonoUpmixed(waveform1, waveform2)
          /\ waveform1.data[1] = StrippedAtTarget(audio1).data[1]
          /\ waveform2 = StrippedAtTarget(audio2)
    /\ pc = "pad" /\ channels1 = 2 /\ channels2 = 1 =>
          /\ C8_MonoUpmixed(waveform2, waveform1)
          /\ waveform2.data[1] = StrippedAtTarget(audio2).data[1]
          /\ waveform1 = StrippedAtTarget(audio1)
    /\ Aligned /\ channels1 = 1 /\ channels2 = 2 => C8_MonoUpmixed(waveform1, waveform2)
    /\ Aligned /\ channels1 = 2 /\ channels2 = 1 => C8_MonoUpmixed(waveform2, waveform1)
    /\ Returned /\ {InChannels(audio1), InChannels(audio2)} = {1, 2} =>
          Rows(result.waveform) = 2

C8_Witness ==
    /\ Returned
    /\ InDim(audio1) = 1 /\ InChannels(audio2) = 2
    /\ audio2.waveform.data[1] # audio2.waveform.data[2]
    /\ waveform1.data[1] = audio1.waveform.data[1]
    /\ waveform1.data[2] = audio1.waveform.data[1]
    /\ Rows(result.waveform) = 2

\* C9: the returned waveform is [1, channels, samples] exactly when at least
\* one input was 3-D, and [channels, samples] otherwise, also for 1-D inputs
\* and whether or not an input was resampled.
C9_BatchRestored ==
    Returned =>
        /\ result.waveform.dim
              = IF InDim(audio1) = 3 \/ InDim(audio2) = 3 THEN 3 ELSE 2
        /\ Rows(result.waveform) = Max2(InChannels(audio1), InChannels(audio2))

C9_Witness ==
    /\ Returned
    /\ InDim(audio1) = 3 /\ InDim(audio2) = 1
    /\ audio1.sample_rate # final_sample_rate
    /\ result.waveform.dim = 3

\* the mixed buffer as it was before clip prevention, once the mix is made
RawMix == MixWaveforms(waveform1, waveform2, blend_mode, mix_ratio)
\* w divided by its peak when the peak is greater than 1.0
ScaledToPeak(w) ==
    LET peak == AbsMax(w)
    IN  [c \in 1..Rows(w) |->
            [i \in 1..LastSize(w) |->
                IF FGreater(peak, One) THEN FDiv(w.data[c][i], peak)
                ELSE w.data[c][i]]]
Within1(w) == \A x \in Elements(w) : x # NaN /\ Abs(x) <= One
ClipPrevented ==
    LET peak == AbsMax(RawMix)
    IN  /\ Within1(result.waveform)
        /\ mixed_waveform.data = ScaledToPeak(RawMix)
        /\ FGreater(peak, One) => AbsMax(result.waveform) = One
        /\ ~FGreater(peak, One) => mixed_waveform = RawMix

\* C2 as claimed: whatever the finite input amplitudes, every returned sample
\* is at most 1.0 in absolute value; a peak above 1.0 divides the buffer by
\* the peak, a peak of at most 1.0 leaves it unchanged.
C2_AnyFiniteInput ==
    Returned /\ (\A x \in InElements(audio1) \cup InElements(audio2) : IsFinite(x))
        => ClipPrevented

\* C2 as amended: the same, for the calls whose mix does not overflow the
\* float range (every sample of the mixed buffer is finite).
C2_ClipPrevented ==
    Returned /\ (\A x \in Elements(RawMix) : IsFinite(x)) => ClipPrevented

C2_Witness ==
    /\ Returned
    /\ blend_mode = "add"
    /\ AbsMax(RawMix) = 2 * One
    /\ AbsMax(result.waveform) = One
    /\ \E x \in Elements(result.waveform) : x = Half

\* the channel counts of the arguments are neither equal nor 1 and 2
ChannelsMismatch ==
    /\ InChannels(audio1) # InChannels(audio2)
    /\ {InChannels(audio1), InChannels(audio2)} # {1, 2}
ChannelsError ==
    /\ ChannelsMismatch =>
          /\ pc = "raised"
          /\ error = [kind |-> "ValueError", channels1 |-> InChannels(audio1),
                      channels2 |-> InChannels(audio2)]
          /\ result = NoResult
    /\ ~ChannelsMismatch => error.kind # "ValueError"

\* C3 as claimed: the call ends in the incompatible-channels error, carrying
\* both counts and returning nothing, whenever the counts differ and are not 1
\* and 2, and never on equal counts or on 1 and 2.
C3_AlwaysChannelsError == Finished => ChannelsError

\* C3 as amended: the same, unless resampling has already failed; that
\* happens only for an input that is to be resampled and whose length at the
\* target rate, int((length / rate) * final_rate), is 0.
C3_ChannelsError ==
    /\ Finished /\ error.kind # "RuntimeError" => ChannelsError
    /\ error.kind = "RuntimeError" =>
          \E a \in {audio1, audio2} :
              /\ a.sample_rate # PolicyRate
              /\ InLength(a) * PolicyRate < 2 * a.sample_rate

C3_Witness ==
    /\ pc = "raised"
    /\ InDim(audio1) = 1 /\ InDim(audio2) = 3
    /\ error = [kind |-> "ValueError", channels1 |-> 1, channels2 |-> 3]
    /\ audio2.sample_rate # final_sample_rate

\* add mode, one rate, one channel count, audio1 shorter than audio2
ShorterFirst ==
    /\ Returned
    /\ blend_mode = "add"
    /\ audio1.sample_rate = audio2.sample_rate
    /\ InChannels(audio1) = InChannels(audio2)
    /\ InLength(audio1) < InLength(audio2)
TailIndices == (InLength(audio1) + 1)..InLength(audio2)
PaddedBehind ==
    /\ LastSize(result.waveform) = InLength(audio2)
    /\ \A c \in 1..Rows(waveform1) :
          /\ \A i \in 1..InLength(audio1) :
                waveform1.data[c][i] = audio1.waveform.data[c][i]
          /\ \A i \in TailIndices : waveform1.data[c][i] = 0

\* C5 as claimed: the output has L2 samples and its samples at [L1, L2)
\* equal audio2's samples there exactly.
C5_TailIsAudio2 ==
    ShorterFirst =>
        /\ PaddedBehind
        /\ \A c \in 1..Rows(result.waveform) : \A i \in TailIndices :
              result.waveform.data[c][i] = audio2.waveform.data[c][i]

\* C5 as amended: the shorter waveform is padded with trailing zeros only and
\* the output has L2 samples; its samples at [L1, L2) equal audio2's there
\* exactly when the peak of the sum is at most 1.0, and audio2's divided by
\* that peak when it is greater.
C5_TailIsAudio2Scaled ==
    ShorterFirst =>
        /\ PaddedBehind
        /\ \A c \in 1..Rows(result.waveform) : \A i \in TailIndices :
              result.waveform.data[c][i]
                 = IF FGreater(AbsMax(RawMix), One)
                   THEN FDiv(audio2.waveform.data[c][i], AbsMax(RawMix))
                   ELSE audio2.waveform.data[c][i]

C5_Witness ==
    /\ ShorterFirst
    /\ ~FGreater(AbsMax(RawMix), One)
    /\ result.waveform.data[1][2] = audio2.waveform.data[1][2]
    /\ result.waveform.data[1][2] # 0
    /\ audio1.waveform.data[1][1] # 0

\* the argument needs no alignment against the other one: it is at the target
\* rate, has the output's form, and is not the narrower or the shorter side
NeedsNoAlignment(a, b) ==
    /\ a.sample_rate = PolicyRate
    /\ InDim(a) = (IF InDim(a) = 3 \/ InDim(b) = 3 THEN 3 ELSE 2)
    /\ InChannels(a) >= InChannels(b)
    /\ InLength(a) >= LengthAtTarget(b)
\* what 'average' returns on the operands of this call
AverageOutput ==
    WrapBatch(Normalize(MixWaveforms(waveform1, waveform2, "average", mix_ratio)),
              has_batch1, has_batch2)
Mixing == Returned /\ blend_mode = "mix"

\* C6 as claimed: in 'mix' mode a ratio of 1.0 returns audio1's waveform
\* unchanged, 0.0 returns audio2's unchanged, and 0.5 returns what 'average'
\* returns, for every pair of inputs.
C6_RatioEnds ==
    Mixing =>
        /\ mix_ratio = One => result.waveform.data = audio1.waveform.data
        /\ mix_ratio = 0 => result.waveform.data = audio2.waveform.data
        /\ mix_ratio = Half => result.waveform = AverageOutput

\* C6 as amended: a ratio of 1.0 (0.0) makes the mixed buffer the first
\* (second) operand as aligned for mixing, which is returned divided by its
\* peak when that exceeds 1.0; it is the argument's own waveform when the
\* argument needed no alignment and its peak is at most 1.0.  A ratio of 0.5
\* returns what 'average' returns when no sum w1 + w2 overflows and halving
\* the samples is exact.
C6_RatioEndsAligned ==
    Mixing =>
        /\ mix_ratio = One =>
              /\ RawMix = waveform1
              /\ mixed_waveform.data = ScaledToPeak(waveform1)
              /\ NeedsNoAlignment(audio1, audio2)
                   /\ ~FGreater(AbsMax(audio1.waveform), One)
                 => result.waveform = audio1.waveform
        /\ mix_ratio = 0 =>
              /\ RawMix = waveform2
              /\ mixed_waveform.data = ScaledToPeak(waveform2)
              /\ NeedsNoAlignment(audio2, audio1)
                   /\ ~FGreater(AbsMax(audio2.waveform), One)
                 => result.waveform = audio2.waveform
        /\ mix_ratio = Half
             /\ (\A x \in Elements(TensorAdd(waveform1, waveform2)) : IsFinite(x))
             /\ (\A x \in Elements(waveform1) \cup Elements(waveform2) : x % 2 = 0)
           => result.waveform = AverageOutput

C6_Witness ==
    /\ Mixing
    /\ mix_ratio = One
    /\ result.waveform = audio1.waveform
    /\ InLength(audio2) < InLength(audio1)
    /\ \E x \in InElements(audio2) : x # 0
    /\ InChannels(audio1) = 2
    /\ audio1.waveform.data[1] # audio1.waveform.data[2]

\* a clip overlaid with itself in 'mix' mode at ratio 1.0
SelfMix ==
    /\ Returned
    /\ audio1 = audio2
    /\ blend_mode = "mix"
    /\ mix_ratio = One
Untouched ==
    /\ result.sample_rate = audio1.sample_rate
    /\ waveform1 = Tensor(2, audio1.waveform.data)
    /\ waveform2 = Tensor(2, audio2.waveform.data)

\* C7 as claimed: the output is the input waveform, shape and samples, at the
\* input's rate, for every policy; nothing is resampled, upmixed or padded.
C7_SelfMixIdentity ==
    SelfMix => Untouched /\ result.waveform = audio1.waveform

\* C7 as amended: nothing is resampled, upmixed or padded and the rate is the
\* input's; the output is the input waveform when that is 2-D or 3-D with a
\* peak of at most 1.0; a 1-D input comes back as [1, samples], and a peak
\* above 1.0 comes back divided out.
C7_SelfMixAligned ==
    SelfMix =>
        /\ Untouched
        /\ result.waveform.dim = (IF InDim(audio1) = 1 THEN 2 ELSE InDim(audio1))
        /\ result.waveform.data = ScaledToPeak(audio1.waveform)
        /\ ~FGreater(AbsMax(audio1.waveform), One) =>
              result.waveform.data = audio1.waveform.data

C7_Witness ==
    /\ SelfMix
    /\ target_sample_rate = "lower"
    /\ InDim(audio1) = 3
    /\ InChannels(audio1) = 2
    /\ InLength(audio1) = 2
    /\ result.waveform = audio1.waveform

\* the arguments that were resampled, each with its waveform after resampling
ResampledPairs ==
    {p \in {<<audio1, waveform1>>, <<audio2, waveform2>>} :
        p[1].sample_rate # final_sample_rate}
SameForm(a, w) ==
    /\ w.dim = InDim(a)
    /\ Rows(w) = InChannels(a)
    /\ \A c \in 1..Rows(w) : Len(w.data[c]) = LastSize(w)

\* C10 as claimed: a resampled waveform has round(length * final_rate /
\* original_rate) samples, and the channels and form it had.
C10_RoundedLength ==
    pc = "batch" =>
        \A p \in ResampledPairs :
            /\ LastSize(p[2]) = RoundHalfEven(InLength(p[1]) * final_sample_rate,
                                              p[1].sample_rate)
            /\ SameForm(p[1], p[2])

\* C10 as amended: a resampled waveform has int((length / original_rate) *
\* final_rate) samples: the quotient length * final_rate / original_rate
\* truncated, or one less where the quotient is an integer and the floating
\* point product falls short of it; it has at least one sample and the
\* channels and form it had.
C10_TruncatedLength ==
    pc = "batch" =>
        \A p \in ResampledPairs :
            LET exact == InLength(p[1]) * final_sample_rate
                floor == exact \div p[1].sample_rate
            IN  /\ LastSize(p[2]) >= 1
                /\ LastSize(p[2]) \in {floor - 1, floor}
                /\ exact % p[1].sample_rate # 0 => LastSize(p[2]) = floor
                /\ SameForm(p[1], p[2])

C10_Witness ==
    /\ pc = "batch"
    /\ InDim(audio1) = 1
    /\ InLength(audio1) = 1
    /\ audio1.sample_rate = 2
    /\ final_sample_rate = 3
    /\ LastSize(waveform1) = 1
    /\ InDim(audio2) = 3

====
